---- MODULE Spec2Model ----
(***************************************************************************)
(* Game leaderboard backend: a relational ledger (playerinfo,              *)
(* playerleaderboard, score_history) mirrored into a Redis sorted set.     *)
(* Model of backend/main.py and backend/redis_client.py.                   *)
(***************************************************************************)
EXTENDS Integers, Sequences, FiniteSets, TLC

\* ------------------------------------------------------------------ bounds
MaxPlayers == 2
MaxRequests == 2
MaxWorkers == 2
MaxScore == 2
MaxLongGaps == 1
MaxFrac == 1
MaxN == 2
MaxTs == 3

\* ------------------------------------------------------- program constants
\* redis_client.py:42  the multiplier 1_000_000_000.0 of the score term
K == 1000000000

\* A gap between two clock readings longer than K milliseconds (~11.6 days).
LongGap == K + 1

\* A player id that uuid4() never hands out.
UnknownId == MaxPlayers + 1

Ids == 1..UnknownId
Handles == 1..MaxPlayers
Requests == 1..MaxWorkers
Scores == 0..MaxScore

VARIABLES
    clock,          \* last value datetime.utcnow() returned: <<ms, sub-ms part>>
    next_id,        \* number of uuid4() player ids handed out so far
    playerinfo,     \* table playerinfo: player_id -> phone_or_email
    leaderboard,    \* table playerleaderboard: player_id -> [best_score, last_updated]
    score_history,  \* table score_history, rows in insertion (id) order
    zset,           \* Redis ZSET global:leaderboard: member -> encoded score
    meta,           \* Redis hashes player:meta:<id>
    req,            \* the /submit-score request each worker thread runs
    served          \* number of requests received so far

vars == <<clock, next_id, playerinfo, leaderboard, score_history, zset, meta, req, served>>

\* --------------------------------------------------------------- datetimes
\* A datetime is <<milliseconds, sub-millisecond part>>; datetimes compare
\* lexicographically.
DtLT(a, b) == a[1] < b[1] \/ (a[1] = b[1] /\ a[2] < b[2])

DtLE(a, b) == a = b \/ DtLT(a, b)

\* datetime.utcnow(): the clock never runs backwards; two readings may be the
\* same instant, less than a millisecond apart, or more than K ms apart.
UtcNow(d) ==
    CASE d = "same" -> clock
      [] d = "sub"  -> <<clock[1], clock[2] + 1>>
      [] d = "long" -> <<clock[1] + LongGap, 0>>

\* The readings the bounds of the model allow.
CanAdvance(d) ==
    CASE d = "same" -> TRUE
      [] d = "sub"  -> clock[2] < MaxFrac
      [] d = "long" -> clock[1] \div K < MaxLongGaps

Advances == {"same", "sub", "long"}

\* int(achieved_at * 1000): the timestamp truncated to whole milliseconds.
TsMs(dt) == dt[1]

\* ------------------------------------------------------------ score encoder
\* An encoded value is an integer, held as two base-K digits <<hi, lo>> with
\* value hi * K + lo and 0 <= lo < K.
\* Order of encoded values (float comparison).
EncGT(a, b) == a[1] > b[1] \/ (a[1] = b[1] /\ a[2] > b[2])

\* 2^53 .. 2^60 as base-K digits: from 2^53 on a float64 holds only every
\* second integer, from 2^54 on every fourth, and so on.
F64Steps ==
    << <<9007199, 254740992>>, <<18014398, 509481984>>, <<36028797, 18963968>>,
       <<72057594, 37927936>>, <<144115188, 75855872>>, <<288230376, 151711744>>,
       <<576460752, 303423488>>, <<1152921504, 606846976>> >>

\* The distance of the float64 values around v (v below 2^61 and above -2^53).
Ulp(v) == 2 ^ Cardinality({i \in 1..Len(F64Steps) : ~ EncGT(F64Steps[i], v)})

\* The float64 nearest to the integer v, ties to the even significand.  Ulp(v)
\* divides K, so only the low digit is rounded.
RoundF64(v) ==
    LET u == Ulp(v)
        rem == v[2] % u
        down == <<v[1], v[2] - rem>>
        up == IF down[2] + u = K THEN <<v[1] + 1, 0>> ELSE <<v[1], down[2] + u>>
    IN  IF rem = 0 THEN v
        ELSE IF 2 * rem < u THEN down
        ELSE IF 2 * rem > u THEN up
        ELSE IF (down[2] \div u) % 2 = 0 THEN down ELSE up

\* float(best_score) * 1e9 - float(achieved_ts_ms): the product is exact for
\* every score of the Integer column (best_score * 5^9 < 2^53), the difference
\* is rounded once.
Encode(best_score, achieved_ts_ms) ==
    LET q == achieved_ts_ms \div K
        r == achieved_ts_ms % K
    IN  RoundF64(IF r = 0 THEN <<best_score - q, 0>>
                          ELSE <<best_score - q - 1, K - r>>)

\* ---------------------------------------------------------------- requests
\* status is the HTTP status of the response, 0 while the request runs.
IdleReq == [pc |-> "idle", player_id |-> 0, score |-> 0, now |-> <<0, 0>>,
            is_new |-> FALSE, best_score |-> 0, last_updated |-> <<0, 0>>,
            status |-> 0, handle |-> 0]

\* The handler returned: the session and its objects are gone (database.py:22-28),
\* the response status is what is left of the request.
Respond(status) == [IdleReq EXCEPT !.pc = "done", !.status = status]

\* A worker thread that is not running a request.
Free(r) == req[r].pc \in {"idle", "done"}

\* RowLocked for a SELECT without FOR UPDATE: nobody ever waits.
RowLocked_Never(p) == FALSE

\* RowLocked for a lock the commit does not release: the row stays locked once
\* a submission of the player has committed.
RowLocked_NotReleased(p) ==
    \/ \E r \in Requests : req[r].pc = "locked" /\ req[r].player_id = p
    \/ \E i \in 1..Len(score_history) : score_history[i].player_id = p

\* RowLocked for a lock on the whole table: any locked request blocks.
RowLocked_Table(p) == \E r \in Requests : req[r].pc = "locked"

\* The request holding the row lock of player p's playerleaderboard row.
RowLocked(p) == \E r \in Requests : req[r].pc = "locked" /\ req[r].player_id = p

Init ==
    /\ clock = <<0, 0>>
    /\ next_id = 0
    /\ playerinfo = <<>>
    /\ leaderboard = <<>>
    /\ score_history = <<>>
    /\ zset = <<>>
    /\ meta = <<>>
    /\ req = [r \in Requests |-> IdleReq]
    /\ served = 0

\* ------------------------------------------------------------------ signup
\* POST /signup: 400 when the contact handle exists, else a new player and
\* its leaderboard row (best_score 0, last_updated now), in one transaction.
\* Handles are interchangeable: a new player takes the least unused one.
signup(h, d) ==
    /\ next_id < MaxPlayers
    /\ CanAdvance(d)
    /\ ~ \E p \in DOMAIN playerinfo : playerinfo[p] = h
    /\ \A g \in Handles : g < h => \E p \in DOMAIN playerinfo : playerinfo[p] = g
    /\ LET p == next_id + 1
           now == UtcNow(d)
       IN  /\ clock' = now
           /\ next_id' = p
           /\ playerinfo' = (p :> h) @@ playerinfo
           /\ leaderboard' = (p :> [best_score |-> 0, last_updated |-> now]) @@ leaderboard
    /\ UNCHANGED <<score_history, zset, meta, req, served>>

\* ------------------------------------------------------------ submit_score
\* The player ids a /submit-score request may carry: a player's, or an unknown one.
Callers == DOMAIN playerinfo \cup {UnknownId}

\* SubmitStart without the player lookup: every request goes on.
SubmitStart_NoLookup(r, p, s, d) ==
    /\ served < MaxRequests
    /\ p \in Callers
    /\ Free(r)
    /\ \A q \in Requests : q < r => ~ Free(q)
    /\ served' = served + 1
    /\ CanAdvance(d)
    /\ clock' = UtcNow(d)
    /\ req' = [req EXCEPT ![r] = [IdleReq EXCEPT !.pc = "started", !.player_id = p,
                                                 !.score = s, !.now = UtcNow(d)]]
    /\ UNCHANGED <<next_id, playerinfo, leaderboard, score_history, zset, meta>>

\* main.py:114-118  look the player up (404 when absent), then read the clock.
SubmitStart(r, p, s, d) ==
    /\ served < MaxRequests
    /\ p \in Callers
    /\ Free(r)
    /\ \A q \in Requests : q < r => ~ Free(q)
    /\ served' = served + 1
    /\ IF p \notin DOMAIN playerinfo
       THEN /\ req' = [req EXCEPT ![r] = Respond(404)]
            /\ UNCHANGED clock
       ELSE /\ CanAdvance(d)
            /\ clock' = UtcNow(d)
            /\ req' = [req EXCEPT ![r] = [IdleReq EXCEPT !.pc = "started", !.player_id = p,
                                                         !.score = s, !.now = UtcNow(d)]]
    /\ UNCHANGED <<next_id, playerinfo, leaderboard, score_history, zset, meta>>

\* BetterScore without the comparison: every submission overwrites the row.
BetterScore_Overwrite(score, now, row) ==
    [best_score |-> score, last_updated |-> now]

\* BetterScore with >= for >: an equal score takes the record over.
BetterScore_OrEqual(score, now, row) ==
    IF score >= row.best_score
    THEN [best_score |-> score, last_updated |-> now]
    ELSE row

\* main.py:135-147  the new content of the session's leaderboard object, from
\* the row the locking SELECT returned.
BetterScore(score, now, row) ==
    IF score > row.best_score
    THEN [best_score |-> score, last_updated |-> now]
    ELSE row

\* main.py:129-147  SELECT ... FOR UPDATE waits for the row lock and returns the
\* committed row; the object is created when there is no row.
LockRow(r) ==
    LET p == req[r].player_id IN
    /\ req[r].pc = "started"
    /\ IF p \in DOMAIN leaderboard
       THEN /\ ~ RowLocked(p)
            /\ LET lb == BetterScore(req[r].score, req[r].now, leaderboard[p])
               IN  req' = [req EXCEPT ![r] = [@ EXCEPT !.pc = "locked", !.is_new = FALSE,
                               !.best_score = lb.best_score,
                               !.last_updated = lb.last_updated]]
       ELSE req' = [req EXCEPT ![r] = [@ EXCEPT !.pc = "inserting", !.is_new = TRUE,
                               !.best_score = req[r].score,
                               !.last_updated = req[r].now]]
    /\ UNCHANGED <<clock, next_id, playerinfo, leaderboard, score_history, zset, meta, served>>

\* main.py:149  db.commit(): the score_history row and the leaderboard row are
\* flushed and committed together, and the row lock is released.  An INSERT of
\* a leaderboard row that exists by now violates the primary key: rollback, 500.
Commit(r) ==
    LET p == req[r].player_id IN
    /\ req[r].pc \in {"locked", "inserting"}
    /\ IF req[r].is_new /\ p \in DOMAIN leaderboard
       THEN /\ req' = [req EXCEPT ![r] = Respond(500)]
            /\ UNCHANGED <<leaderboard, score_history>>
       ELSE /\ score_history' = Append(score_history,
                   [player_id |-> p, score |-> req[r].score, created_at |-> req[r].now])
            /\ leaderboard' = (p :> [best_score |-> req[r].best_score,
                                     last_updated |-> req[r].last_updated]) @@ leaderboard
            /\ req' = [req EXCEPT ![r] = [@ EXCEPT !.pc = "committed"]]
    /\ UNCHANGED <<clock, next_id, playerinfo, zset, meta, served>>

\* main.py:152-155  the commit expired the session's objects (database.py:17,
\* expire_on_commit is left on): reading leaderboard.best_score and
\* .last_updated loads the row as committed at that moment.
Refresh(r) ==
    LET p == req[r].player_id IN
    /\ req[r].pc = "committed"
    /\ req' = [req EXCEPT ![r] = [@ EXCEPT !.pc = "refreshed",
                                   !.best_score = leaderboard[p].best_score,
                                   !.last_updated = leaderboard[p].last_updated]]
    /\ UNCHANGED <<clock, next_id, playerinfo, leaderboard, score_history, zset, meta, served>>

\* redis_client.py:45-67  ZADD + HSET in one MULTI/EXEC pipeline.
update_leaderboard(player_id, best_score, achieved_at) ==
    LET ts_ms == TsMs(achieved_at)
        encoded_score == Encode(best_score, ts_ms)
    IN  /\ zset' = (player_id :> encoded_score) @@ zset
        /\ meta' = (player_id :> [best_score |-> best_score,
                                  last_updated_epoch |-> ts_ms]) @@ meta

\* main.py:152-158  the mirror call succeeds and the handler returns 200.
Mirror(r) ==
    /\ req[r].pc = "refreshed"
    /\ update_leaderboard(req[r].player_id, req[r].best_score, req[r].last_updated)
    /\ req' = [req EXCEPT ![r] = Respond(200)]
    /\ UNCHANGED <<clock, next_id, playerinfo, leaderboard, score_history, served>>

\* main.py:152-156  the Redis call raises (connection refused, timeout); the
\* handler has no except clause, the exception becomes a 500 response.
MirrorFails(r) ==
    /\ req[r].pc = "refreshed"
    /\ req' = [req EXCEPT ![r] = Respond(500)]
    /\ UNCHANGED <<clock, next_id, playerinfo, leaderboard, score_history, zset, meta, served>>

\* -------------------------------------------------------------- read side
\* Redis orders a ZSET by score and, among equal scores, by member string;
\* ZREVRANGE / ZREVRANK walk that order from the top.
ZAbove(a, b) == EncGT(zset[a], zset[b]) \/ (zset[a] = zset[b] /\ a > b)

\* ZREVRANK: 0-based position from the top.
ZRevRank(m) == Cardinality({x \in DOMAIN zset : ZAbove(x, m)})

\* get_top_n_from_redis with ZREVRANGE 0 n-2: one entry short.
get_top_n_from_redis_Short(n) ==
    LET len == IF n - 1 < Cardinality(DOMAIN zset) THEN n - 1 ELSE Cardinality(DOMAIN zset)
    IN  [i \in 1..len |-> CHOOSE m \in DOMAIN zset : ZRevRank(m) = i - 1]

\* redis_client.py:70-76  ZREVRANGE 0 n-1: the member ids, best first.
get_top_n_from_redis(n) ==
    LET len == IF n < Cardinality(DOMAIN zset) THEN n ELSE Cardinality(DOMAIN zset)
    IN  [i \in 1..len |-> CHOOSE m \in DOMAIN zset : ZRevRank(m) = i - 1]

\* get_rank_from_redis with ZRANK for ZREVRANK: positions counted from the bottom.
get_rank_from_redis_Asc(player_id) ==
    IF player_id \in DOMAIN zset
    THEN Cardinality({x \in DOMAIN zset : ZAbove(player_id, x)}) + 1
    ELSE 0

\* redis_client.py:79-89  1-based rank, 0 standing for None.
get_rank_from_redis(player_id) ==
    IF player_id \in DOMAIN zset THEN ZRevRank(player_id) + 1 ELSE 0

\* main.py:203-225  GET /player/{player_id}: 404 without a PlayerInfo row joined
\* to its leaderboard row, else the ledger's record and the index's rank.
get_player_profile(player_id) ==
    IF player_id \in DOMAIN playerinfo /\ player_id \in DOMAIN leaderboard
    THEN [status |-> 200, rank |-> get_rank_from_redis(player_id),
          best_score |-> leaderboard[player_id].best_score,
          last_updated |-> leaderboard[player_id].last_updated]
    ELSE [status |-> 404, rank |-> 0, best_score |-> 0, last_updated |-> <<0, 0>>]

\* TopItems with the items numbered 1, 2, 3, ... as they are appended.
RECURSIVE TopItems_Renumbered(_, _)
TopItems_Renumbered(redis_entries, idx) ==
    IF idx > Len(redis_entries) THEN <<>>
    ELSE LET pid == redis_entries[idx]
             kept == {j \in 1..idx : /\ redis_entries[j] \in DOMAIN playerinfo
                                     /\ redis_entries[j] \in DOMAIN leaderboard}
         IN  IF pid \in DOMAIN playerinfo /\ pid \in DOMAIN leaderboard
             THEN <<[rank |-> Cardinality(kept), player_id |-> pid,
                     score |-> leaderboard[pid].best_score,
                     last_updated |-> leaderboard[pid].last_updated]>>
                  \o TopItems_Renumbered(redis_entries, idx + 1)
             ELSE TopItems_Renumbered(redis_entries, idx + 1)

\* main.py:183-198  the loop over the Redis entries: entries without a ledger
\* row are skipped, the others get rank = idx + 1.
RECURSIVE TopItems(_, _)
TopItems(redis_entries, idx) ==
    IF idx > Len(redis_entries) THEN <<>>
    ELSE LET pid == redis_entries[idx]
         IN  IF pid \in DOMAIN playerinfo /\ pid \in DOMAIN leaderboard
             THEN <<[rank |-> idx, player_id |-> pid,
                     score |-> leaderboard[pid].best_score,
                     last_updated |-> leaderboard[pid].last_updated]>>
                  \o TopItems(redis_entries, idx + 1)
             ELSE TopItems(redis_entries, idx + 1)

\* main.py:161-200  GET /leaderboard/top?n=
get_top_leaderboard(n) ==
    LET items == TopItems(get_top_n_from_redis(n), 1)
    IN  [total |-> Len(items), items |-> items]

\* The score_history rows of player_id, as indices into the table.
HistoryRows(player_id) ==
    {i \in 1..Len(score_history) : score_history[i].player_id = player_id}

\* HistoryOrders for ORDER BY id DESC: the row inserted last comes first.
HistoryOrders_ById(player_id) ==
    {f \in [1..Cardinality(HistoryRows(player_id)) -> HistoryRows(player_id)] :
        \A i, j \in DOMAIN f : i < j => f[i] > f[j]}

\* main.py:244-250  ORDER BY created_at DESC: every order of the player's rows
\* in which no row comes before a newer one; the database is free to return
\* rows of equal created_at either way round.
HistoryOrders(player_id) ==
    {f \in [1..Cardinality(HistoryRows(player_id)) -> HistoryRows(player_id)] :
        /\ \A i, j \in DOMAIN f : i # j => f[i] # f[j]
        /\ \A i, j \in DOMAIN f :
              i < j => DtLE(score_history[f[j]].created_at, score_history[f[i]].created_at)}

\* main.py:232-259  GET /player/{player_id}/history?limit=: the responses the
\* handler can give: 404 for an unknown player, else the first limit rows.
get_player_history(player_id, limit) ==
    IF player_id \notin DOMAIN playerinfo
    THEN {[status |-> 404, history |-> <<>>]}
    ELSE {[status |-> 200,
           history |-> [i \in 1..(IF limit < Len(f) THEN limit ELSE Len(f)) |->
                           [score |-> score_history[f[i]].score,
                            created_at |-> score_history[f[i]].created_at]]] :
              f \in HistoryOrders(player_id)}

\* ------------------------------------------------------------- reset_state
\* tests/test_main.py:16-19  the three ledger tables are emptied and committed.
\* The test client is synchronous: no request is running.
ResetLedger ==
    /\ \A r \in Requests : Free(r)
    /\ DOMAIN playerinfo # {}
    /\ playerinfo' = <<>>
    /\ leaderboard' = <<>>
    /\ score_history' = <<>>
    /\ UNCHANGED <<clock, next_id, zset, meta, req, served>>

\* tests/test_main.py:20-21  FLUSHDB, after the ledger was emptied.
FlushIndex ==
    /\ \A r \in Requests : Free(r)
    /\ DOMAIN playerinfo = {}
    /\ DOMAIN zset # {}
    /\ zset' = <<>>
    /\ meta' = <<>>
    /\ UNCHANGED <<clock, next_id, playerinfo, leaderboard, score_history, req, served>>

\* ---------------------------------------------------------- specifications
Next ==
    \/ \E h \in Handles, d \in Advances : signup(h, d)
    \/ \E r \in Requests, p \in Ids, s \in Scores, d \in Advances : SubmitStart(r, p, s, d)
    \/ \E r \in Requests : LockRow(r)
    \/ \E r \in Requests : Commit(r)
    \/ \E r \in Requests : Refresh(r)
    \/ \E r \in Requests : Mirror(r)
    \/ \E r \in Requests : MirrorFails(r)

\* The service as deployed: signups and score submissions, run concurrently.
Spec == Init /\ [][Next]_vars

\* A step of the handler run by worker r.
HandlerStep(r) == LockRow(r) \/ Commit(r) \/ Refresh(r) \/ Mirror(r) \/ MirrorFails(r)

\* Fair scheduling: a worker thread whose next statement can run does run it;
\* the Redis call returns or raises.
Fairness ==
    \A r \in Requests :
        /\ WF_vars(LockRow(r))
        /\ WF_vars(Commit(r))
        /\ WF_vars(Refresh(r))
        /\ WF_vars(Mirror(r) \/ MirrorFails(r))

\* The service under fair scheduling of its worker threads.
LiveSpec == Init /\ [][Next]_vars /\ Fairness

NextDrift ==
    \/ Next
    \/ ResetLedger
    \/ FlushIndex

\* The service together with the state reset of the test suite, which empties
\* the ledger before it empties the index.
DriftSpec == Init /\ [][NextDrift]_vars

\* CommitFails for a history row committed on its own before the rest fails.
CommitFails_Partial(r) ==
    /\ req[r].pc \in {"locked", "inserting"}
    /\ score_history' = Append(score_history,
           [player_id |-> req[r].player_id, score |-> req[r].score,
            created_at |-> req[r].now])
    /\ req' = [req EXCEPT ![r] = Respond(500)]
    /\ UNCHANGED <<clock, next_id, playerinfo, leaderboard, zset, meta, served>>

\* main.py:149  db.commit() raises (connection lost, statement error): the one
\* transaction holding the pending score_history INSERT and the leaderboard
\* change is not committed, db.close() (database.py:26-28) rolls it back and
\* releases the row lock, and the request is answered 500.
CommitFails(r) ==
    /\ req[r].pc \in {"locked", "inserting"}
    /\ req' = [req EXCEPT ![r] = Respond(500)]
    /\ UNCHANGED <<clock, next_id, playerinfo, leaderboard, score_history, zset, meta, served>>

NextAbort ==
    \/ Next
    \/ \E r \in Requests : CommitFails(r)

\* The service with ledger transactions that may fail at the commit.
AbortSpec == Init /\ [][NextAbort]_vars

\* ------------------------------------------------------ signup, step by step
\* SignupFlush for a phone_or_email column without unique=True: the INSERT
\* never waits and never fails.
SignupFlush_NoUnique(r, d) ==
    /\ req[r].pc = "checked"
    /\ next_id < MaxPlayers
    /\ CanAdvance(d)
    /\ clock' = UtcNow(d)
    /\ next_id' = next_id + 1
    /\ req' = [req EXCEPT ![r] = [@ EXCEPT !.pc = "flushed", !.player_id = next_id + 1,
                                              !.now = UtcNow(d)]]
    /\ UNCHANGED <<playerinfo, leaderboard, score_history, zset, meta, served>>

\* main.py:62-68  a worker receives POST /signup: 400 when a committed
\* PlayerInfo row has the contact handle, else the handler goes on.
SignupCheck(r, h) ==
    /\ served < MaxRequests
    /\ Free(r)
    /\ \A q \in Requests : q < r => ~ Free(q)
    /\ served' = served + 1
    /\ IF \E p \in DOMAIN playerinfo : playerinfo[p] = h
       THEN req' = [req EXCEPT ![r] = Respond(400)]
       ELSE req' = [req EXCEPT ![r] = [IdleReq EXCEPT !.pc = "checked", !.handle = h]]
    /\ UNCHANGED <<clock, next_id, playerinfo, leaderboard, score_history, zset, meta>>

\* main.py:70-83  db.flush() sends the INSERT of the PlayerInfo row with a fresh
\* uuid4 id, then utcnow() is read for the leaderboard row.  phone_or_email is
\* unique (models.py:31): the INSERT waits while another transaction holds an
\* uncommitted row with the handle, and fails (IntegrityError, no except
\* clause: 500, rolled back) when a committed row has it.
SignupFlush(r, d) ==
    /\ req[r].pc = "checked"
    /\ ~ \E o \in Requests : req[o].pc = "flushed" /\ req[o].handle = req[r].handle
    /\ IF \E p \in DOMAIN playerinfo : playerinfo[p] = req[r].handle
       THEN /\ req' = [req EXCEPT ![r] = Respond(500)]
            /\ UNCHANGED <<clock, next_id>>
       ELSE /\ next_id < MaxPlayers
            /\ CanAdvance(d)
            /\ clock' = UtcNow(d)
            /\ next_id' = next_id + 1
            /\ req' = [req EXCEPT ![r] = [@ EXCEPT !.pc = "flushed", !.player_id = next_id + 1,
                                                      !.now = UtcNow(d)]]
    /\ UNCHANGED <<playerinfo, leaderboard, score_history, zset, meta, served>>

\* main.py:84-88  db.commit(): the PlayerInfo row and its leaderboard row
\* (best_score 0) become visible together; 200.
SignupCommit(r) ==
    /\ req[r].pc = "flushed"
    /\ playerinfo' = (req[r].player_id :> req[r].handle) @@ playerinfo
    /\ leaderboard' = (req[r].player_id :> [best_score |-> 0, last_updated |-> req[r].now])
                          @@ leaderboard
    /\ req' = [req EXCEPT ![r] = Respond(200)]
    /\ UNCHANGED <<clock, next_id, score_history, zset, meta, served>>

NextSignup ==
    \/ \E r \in Requests, h \in Handles : SignupCheck(r, h)
    \/ \E r \in Requests, d \in Advances : SignupFlush(r, d)
    \/ \E r \in Requests : SignupCommit(r)

\* Signup requests run concurrently, each statement a step of its own.
SignupSpec == Init /\ [][NextSignup]_vars

\* ------------------------------------------------------ request validation
\* ValidScore for a body model without the ge=0 constraint.
ValidScore_Any(s) == TRUE

\* schemas.py:30  score: int = Field(..., ge=0)
ValidScore(s) == s >= 0

\* main.py:163 and main.py:238  Query(10, ge=1, le=100)
ValidCount(n) == n >= 1 /\ n <= 100

\* Scores and counts a client may send, valid or not.
ScoreInputs == (-1)..MaxScore

CountInputs == {0, 1, MaxN, 100, 101}

\* A worker receives a request and answers it without a write to a store.
Answer(r, status) ==
    /\ served < MaxRequests
    /\ Free(r)
    /\ \A q \in Requests : q < r => ~ Free(q)
    /\ served' = served + 1
    /\ req' = [req EXCEPT ![r] = Respond(status)]

\* POST /submit-score as FastAPI serves it: the body is validated against
\* SubmitScoreRequest and a failure is answered 422; submit_score runs only
\* with a valid body.
PostSubmitScore(r, p, s, d) ==
    IF ValidScore(s)
    THEN SubmitStart(r, p, s, d)
    ELSE /\ p \in Callers
         /\ Answer(r, 422)
         /\ UNCHANGED <<clock, next_id, playerinfo, leaderboard, score_history, zset, meta>>

\* GET /leaderboard/top?n=: 422 for n outside 1..100, else the handler's reads.
GetTop(r, n) ==
    /\ Answer(r, IF ValidCount(n) THEN 200 ELSE 422)
    /\ UNCHANGED <<clock, next_id, playerinfo, leaderboard, score_history, zset, meta>>

\* GET /player/{player_id}/history?limit=: 422 for limit outside 1..100, else
\* the status of one of the handler's responses.
GetHistory(r, p, limit) ==
    /\ p \in Callers
    /\ \E res \in get_player_history(p, IF ValidCount(limit) THEN limit ELSE 1) :
          Answer(r, IF ValidCount(limit) THEN res.status ELSE 422)
    /\ UNCHANGED <<clock, next_id, playerinfo, leaderboard, score_history, zset, meta>>

NextApi ==
    \/ \E h \in Handles, d \in Advances : signup(h, d)
    \/ \E r \in Requests, p \in Ids, s \in ScoreInputs, d \in Advances : PostSubmitScore(r, p, s, d)
    \/ \E r \in Requests : LockRow(r)
    \/ \E r \in Requests : Commit(r)
    \/ \E r \in Requests : Refresh(r)
    \/ \E r \in Requests : Mirror(r)
    \/ \E r \in Requests : MirrorFails(r)
    \/ \E r \in Requests, n \in CountInputs : GetTop(r, n)
    \/ \E r \in Requests, p \in Ids, limit \in CountInputs : GetHistory(r, p, limit)

\* The service behind its request validation, with the read endpoints.
ApiSpec == Init /\ [][NextApi]_vars

\* The least score whose encoded value lies above 2^53.
F64Score == 9007200

\* Scores and millisecond timestamps the encoder is applied to.
EncScores == {0, 1, F64Score, F64Score + 1}

EncTimes == 0..MaxTs

\* The players signed up at time 0; each worker has committed one submission
\* of its own player and is about to mirror the record (main.py:149-152).
InitEncode ==
    /\ clock = <<MaxTs, 0>>
    /\ next_id = MaxPlayers
    /\ playerinfo = [p \in 1..MaxPlayers |-> p]
    /\ zset = <<>>
    /\ meta = <<>>
    /\ \E s \in [Requests \cap (1..MaxPlayers) -> EncScores],
          t \in [Requests \cap (1..MaxPlayers) -> EncTimes] :
          LET W == Requests \cap (1..MaxPlayers)
              signed == [best_score |-> 0, last_updated |-> <<0, 0>>]
              row(p) == IF p \in W THEN BetterScore(s[p], <<t[p], 0>>, signed) ELSE signed
          IN  /\ leaderboard = [p \in 1..MaxPlayers |-> row(p)]
              /\ score_history = [p \in W |-> [player_id |-> p, score |-> s[p],
                                                created_at |-> <<t[p], 0>>]]
              /\ req = [r \in Requests |->
                           IF r \in W
                           THEN [IdleReq EXCEPT !.pc = "committed", !.player_id = r,
                                                !.score = s[r], !.now = <<t[r], 0>>,
                                                !.best_score = row(r).best_score,
                                                !.last_updated = row(r).last_updated]
                           ELSE IdleReq]
              /\ served = Cardinality(W)

NextEncode ==
    \/ \E r \in Requests : Refresh(r)
    \/ \E r \in Requests : Mirror(r)

\* The mirror step applied to records over the score range of the Integer column.
EncodeSpec == InitEncode /\ [][NextEncode]_vars

\* ------------------------------------------------------------------ claims
\* No request is running: every submission has completed.
Quiescent == \A r \in Requests : Free(r)

\* The committed score_history rows of player p, as indices into the table.
RowsOf(p) == {i \in 1..Len(score_history) : score_history[i].player_id = p}

\* The scores player p has submitted.
Submitted(p) == {score_history[i].score : i \in RowsOf(p)}

SetMax(S) == CHOOSE x \in S : \A y \in S : y <= x

Max2(a, b) == IF a >= b THEN a ELSE b

\* C1: once every submit_score call has completed, the best_score of a player
\* that submitted at least one score is the maximum of the scores it submitted.
C1_BestScoreIsMax ==
    Quiescent =>
        \A p \in DOMAIN leaderboard :
            Submitted(p) # {} => leaderboard[p].best_score = SetMax(Submitted(p))

\* C1 witness: a player submitted two different scores, the higher one first,
\* and its best_score is the higher one.
C1_Witness ==
    /\ Quiescent
    /\ \E p \in DOMAIN leaderboard : \E i, j \in RowsOf(p) :
          /\ i < j
          /\ score_history[i].score > score_history[j].score
          /\ leaderboard[p].best_score = score_history[i].score

\* The first row, in submission order, in which player p reached its maximum.
FirstMaxRow(p) ==
    CHOOSE i \in RowsOf(p) :
        /\ score_history[i].score = SetMax(Submitted(p))
        /\ \A j \in RowsOf(p) : score_history[j].score = SetMax(Submitted(p)) => i <= j

\* C2: once every submit_score call of a player created through signup has
\* completed, last_updated is the timestamp of the first submission that
\* reached the player's maximum score.
C2_LastUpdatedIsFirstMax ==
    Quiescent =>
        \A p \in DOMAIN leaderboard :
            Submitted(p) # {} =>
                leaderboard[p].last_updated = score_history[FirstMaxRow(p)].created_at

\* C3: every commit of a submission is a read-modify-write of the persisted
\* row: the best_score it leaves is the higher of the persisted best_score and
\* the submitted score, whichever request took the row lock first.
C3_NoLostUpdate ==
    [][\A r \in Requests :
          (req[r].pc = "locked" /\ req'[r].pc = "committed") =>
              leaderboard'[req[r].player_id].best_score =
                  Max2(leaderboard[req[r].player_id].best_score, req[r].score)]_vars

\* C3 witness: two submissions of one player overlapped (the one that read the
\* clock first committed last), the last to commit carried the lower score, and
\* the higher score is the stored best.
C3_Witness ==
    /\ Quiescent
    /\ \E p \in DOMAIN leaderboard : \E i, j \in RowsOf(p) :
          /\ i < j
          /\ DtLT(score_history[j].created_at, score_history[i].created_at)
          /\ score_history[j].score > 0
          /\ score_history[i].score > score_history[j].score
          /\ leaderboard[p].best_score = score_history[i].score

\* The requests of player p that committed and have not yet mirrored.
PendingUpserts(p) ==
    {r \in Requests : req[r].player_id = p /\ req[r].pc \in {"committed", "refreshed"}}

\* C4: when the last pending index upsert of a player is applied, the player's
\* Rank Index entry is the encoding of its current BestScoreRecord.
C4_IndexConverges ==
    [][\A r \in Requests :
          (/\ req[r].pc = "refreshed"
           /\ req'[r].status = 200
           /\ PendingUpserts(req[r].player_id) = {r}) =>
              zset'[req[r].player_id] =
                  Encode(leaderboard'[req[r].player_id].best_score,
                         TsMs(leaderboard'[req[r].player_id].last_updated))]_vars

\* C5: no step decreases a best_score or moves a last_updated backwards.
C5_RecordNeverRegresses ==
    [][\A p \in DOMAIN leaderboard :
          /\ p \in DOMAIN leaderboard'
          /\ leaderboard'[p].best_score >= leaderboard[p].best_score
          /\ DtLE(leaderboard[p].last_updated, leaderboard'[p].last_updated)]_vars

\* The (score, timestamp in ms) pairs the ledger holds.
LedgerPairs ==
    {<<leaderboard[p].best_score, TsMs(leaderboard[p].last_updated)>> : p \in DOMAIN leaderboard}
    \cup {<<score_history[i].score, TsMs(score_history[i].created_at)>> :
              i \in 1..Len(score_history)}

\* C6: the encoding of a pair is above the encoding of another exactly when its
\* score is higher, or the scores are equal and its timestamp is earlier.
C6_EncodeOrder ==
    \A a, b \in LedgerPairs :
        EncGT(Encode(a[1], a[2]), Encode(b[1], b[2]))
            <=> (a[1] > b[1] \/ (a[1] = b[1] /\ a[2] < b[2]))

\* Every Rank Index entry is the encoding of the player's BestScoreRecord.
InSync ==
    \A p \in DOMAIN zset :
        /\ p \in DOMAIN leaderboard
        /\ zset[p] = Encode(leaderboard[p].best_score, TsMs(leaderboard[p].last_updated))

\* Item a ranks strictly above item b in the ledger's order.
LedgerAbove(a, b) ==
    \/ a.score > b.score
    \/ (a.score = b.score /\ DtLT(a.last_updated, b.last_updated))

\* C7: in a quiescent state whose index mirrors the ledger, get_top lists the
\* players in the ledger's order, and the player with the highest best_score
\* is first with get_rank 1.
C7_TopFollowsLedgerOrder ==
    (Quiescent /\ InSync) =>
        \A n \in 1..MaxN :
            LET items == get_top_leaderboard(n).items
            IN  /\ \A i, j \in 1..Len(items) :
                      i < j => ~ LedgerAbove(items[j], items[i])
                /\ \A p \in DOMAIN zset :
                      (\A q \in DOMAIN zset \ {p} :
                           leaderboard[p].best_score > leaderboard[q].best_score)
                      => (items[1].player_id = p /\ get_rank_from_redis(p) = 1)

\* C8: a submission whose index upsert fails after the commit is answered 200
\* and its ledger rows stay.
C8_IndexFailureReportedOk ==
    [][\A r \in Requests :
          (req[r].pc = "refreshed" /\ req'[r].pc = "done") =>
              /\ req'[r].status = 200
              /\ UNCHANGED <<leaderboard, score_history>>]_vars

\* C9: the rank fields of the items get_top returns are 1, 2, 3, ... also when
\* the index holds ids without a ledger row.
C9_RanksContiguous ==
    \A n \in 1..MaxN :
        LET items == get_top_leaderboard(n).items
        IN  \A i \in 1..Len(items) : items[i].rank = i

\* C10: a submit_score for a player id the ledger does not hold ends in 404
\* with the history, the leaderboard rows and the index unchanged; a request
\* goes on only for a player the ledger holds.
C10_UnknownPlayerNotFound ==
    [][\A r \in Requests :
          (served' = served + 1 /\ req'[r] # req[r]) =>
              /\ req'[r].pc = "started" =>
                    (req'[r].player_id \in DOMAIN playerinfo /\ req'[r].status = 0)
              /\ req'[r].pc # "started" =>
                    /\ req'[r].pc = "done"
                    /\ req'[r].status = 404
                    /\ UNCHANGED <<playerinfo, leaderboard, score_history, zset, meta>>]_vars

\* C10 witness: a request for an unknown player was answered 404 while the
\* ledger and the index hold data.
C10_Witness ==
    /\ \E r \in Requests : req[r].pc = "done" /\ req[r].status = 404
    /\ score_history # <<>>
    /\ DOMAIN zset # {}

\* The latest score_history row of player p.
LastRow(p) == SetMax(RowsOf(p))

\* Player p's Rank Index entry is the encoding of its BestScoreRecord.
InSyncFor(p) ==
    /\ p \in DOMAIN zset
    /\ p \in DOMAIN leaderboard
    /\ zset[p] = Encode(leaderboard[p].best_score, TsMs(leaderboard[p].last_updated))

\* Request r repeats the previous call of its player: that call submitted the
\* same score and has completed with its index upsert applied, and no other
\* request for the player runs or has committed since r committed.
Resubmits(r) ==
    LET p == req[r].player_id IN
    /\ ~ Free(r)
    /\ \A q \in Requests \ {r} : req[q].player_id # p
    /\ RowsOf(p) # {}
    /\ score_history[LastRow(p)].score = req[r].score
    /\ InSyncFor(p)
    /\ req[r].pc \in {"committed", "refreshed"} =>
           /\ Cardinality(RowsOf(p)) >= 2
           /\ \E i \in RowsOf(p) : /\ i < LastRow(p)
                                  /\ \A j \in RowsOf(p) : j < LastRow(p) => j <= i
                                  /\ score_history[i].score = req[r].score
    /\ req[r].pc = "refreshed" =>
           /\ req[r].best_score = leaderboard[p].best_score
           /\ req[r].last_updated = leaderboard[p].last_updated

\* C11: the second of two successive submissions of the same (player_id, score)
\* leaves best_score, last_updated and the Rank Index entry as the first call
\* left them, in every one of its steps, and its commit adds one more
\* score_history row of that score.
C11_ResubmitChangesNothing ==
    [][\A r \in Requests, p \in Ids :
          (req[r].player_id = p /\ Resubmits(r)) =>
              /\ leaderboard'[p] = leaderboard[p]
              /\ p \in DOMAIN zset' /\ zset'[p] = zset[p]
              /\ IF req[r].pc \in {"locked", "inserting"} /\ req'[r] # req[r]
                 THEN /\ Len(score_history') = Len(score_history) + 1
                      /\ score_history'[Len(score_history')].player_id = p
                      /\ score_history'[Len(score_history')].score = req[r].score
                      /\ SubSeq(score_history', 1, Len(score_history)) = score_history
                 ELSE RowsOf(p)' = RowsOf(p)]_vars

\* C11 witness: a player submitted the same positive score twice, the second
\* call at a later time; both calls completed, the record carries the time of
\* the first and the index entry is its encoding.
C11_Witness ==
    /\ Quiescent
    /\ \E p \in DOMAIN leaderboard : \E i, j \in RowsOf(p) :
          /\ i < j
          /\ score_history[i].score = score_history[j].score
          /\ score_history[i].score > 0
          /\ DtLT(score_history[i].created_at, score_history[j].created_at)
          /\ leaderboard[p].best_score = score_history[i].score
          /\ leaderboard[p].last_updated = score_history[i].created_at
          /\ InSyncFor(p)
          /\ \A r \in Requests : req[r].status = 200

\* score_history as it was is the beginning of score_history as it is.
HistoryKept ==
    /\ Len(score_history') >= Len(score_history)
    /\ SubSeq(score_history', 1, Len(score_history)) = score_history

\* Request r's transaction commits in this step.
Commits(r) == req[r].pc \in {"locked", "inserting"} /\ req'[r].pc = "committed"

\* Request r is answered in this step.
Answered(r) == ~ Free(r) /\ req'[r].pc = "done"

\* C12: the commit of a submission appends exactly the row (player_id, score,
\* now), no step changes or removes an existing row, and the submissions that
\* left a row are the successful ones: a request that committed its row is
\* answered 200, and a request answered 200 has committed its row.
C12_OneRowPerSuccessfulSubmission ==
    [][/\ HistoryKept
       /\ \A r \in Requests :
             /\ Commits(r) =>
                   score_history' = Append(score_history,
                       [player_id |-> req[r].player_id, score |-> req[r].score,
                        created_at |-> req[r].now])
             /\ (\A q \in Requests : ~ Commits(q)) => score_history' = score_history
             /\ Answered(r) =>
                   (req'[r].status = 200 <=> req[r].pc \in {"committed", "refreshed"})]_vars

\* C13: get_rank is 1 for the player whose index entry has the strictly
\* highest encoded value; for every indexed player it is the 1-based position
\* in descending encoded order (above every entry of lower value, below every
\* entry of higher value, no two players at one position); and the profile of
\* an existing player without a submission is answered with rank absent.
C13_RankIsPosition ==
    /\ \A p \in DOMAIN zset :
          /\ (\A q \in DOMAIN zset \ {p} : EncGT(zset[p], zset[q]))
                 => get_rank_from_redis(p) = 1
          /\ get_rank_from_redis(p) \in 1..Cardinality(DOMAIN zset)
          /\ get_rank_from_redis(p) > Cardinality({q \in DOMAIN zset : EncGT(zset[q], zset[p])})
          /\ \A q \in DOMAIN zset \ {p} :
                /\ get_rank_from_redis(p) # get_rank_from_redis(q)
                /\ EncGT(zset[p], zset[q]) => get_rank_from_redis(p) < get_rank_from_redis(q)
    /\ \A p \in DOMAIN playerinfo :
          RowsOf(p) = {} =>
              /\ get_rank_from_redis(p) = 0
              /\ get_player_profile(p).status = 200
              /\ get_player_profile(p).rank = 0

\* C13 witness: two players are indexed with different encoded values, the
\* one with the lower player id has the higher value and rank 1.
C13_Witness ==
    \E p, q \in DOMAIN zset :
        /\ p < q
        /\ EncGT(zset[p], zset[q])
        /\ get_rank_from_redis(p) = 1
        /\ get_rank_from_redis(q) = 2

\* C14: of two index entries written from pairs with the same timestamp the
\* one of the higher score has the higher encoded value, and of two entries
\* written from pairs with the same score the one of the earlier timestamp has
\* the higher encoded value (meta holds the pair each entry was encoded from).
C14_EncodeMonotone ==
    \A p, q \in DOMAIN zset :
        /\ (/\ meta[p].last_updated_epoch = meta[q].last_updated_epoch
            /\ meta[p].best_score > meta[q].best_score)
               => EncGT(zset[p], zset[q])
        /\ (/\ meta[p].best_score = meta[q].best_score
            /\ meta[p].last_updated_epoch < meta[q].last_updated_epoch)
               => EncGT(zset[p], zset[q])

\* C15: for an existing player every response of get_history(player_id, limit)
\* has min(limit, number of the player's rows) items, each one a row of the
\* player, newest timestamp first, and at most i - 1 rows of the player are
\* newer than the item at position i; for an unknown player_id the response is
\* 404.
C15_HistoryNewestFirst ==
    \A p \in Ids : \A limit \in 1..MaxN : \A res \in get_player_history(p, limit) :
        IF p \notin DOMAIN playerinfo
        THEN res.status = 404
        ELSE LET h == res.history
                 n == Cardinality(RowsOf(p))
             IN  /\ res.status = 200
                 /\ Len(h) = (IF limit < n THEN limit ELSE n)
                 /\ \A i \in 1..Len(h) :
                       /\ \E k \in RowsOf(p) :
                             /\ score_history[k].score = h[i].score
                             /\ score_history[k].created_at = h[i].created_at
                       /\ Cardinality({k \in RowsOf(p) :
                              DtLT(h[i].created_at, score_history[k].created_at)}) <= i - 1
                 /\ \A i, j \in 1..Len(h) :
                       i < j => DtLE(h[j].created_at, h[i].created_at)

\* C15 witness: a player has two rows, the one inserted last carrying the
\* earlier timestamp and another score; limit 1 returns the row inserted first.
C15_Witness ==
    \E p \in DOMAIN playerinfo : \E i, j \in RowsOf(p) :
        /\ i < j
        /\ DtLT(score_history[j].created_at, score_history[i].created_at)
        /\ score_history[i].score # score_history[j].score
        /\ get_player_history(p, 1) =
              {[status |-> 200,
                history |-> <<[score |-> score_history[i].score,
                               created_at |-> score_history[i].created_at]>>]}

\* The players that have submitted a score.
Scored == {p \in DOMAIN playerinfo : RowsOf(p) # {}}

\* No index/ledger drift: every index entry belongs to a player with a ledger
\* row, and every player that has submitted a score has an index entry.
NoDrift ==
    /\ DOMAIN zset \subseteq (DOMAIN playerinfo \cap DOMAIN leaderboard)
    /\ Scored \subseteq DOMAIN zset

\* C16: without drift get_top(n) returns min(n, number of players that have
\* submitted a score) items, total is that number, every item is a player that
\* has submitted a score and no player is listed twice.
C16_TopSize ==
    NoDrift =>
        \A n \in 1..MaxN :
            LET res == get_top_leaderboard(n)
                k == IF n < Cardinality(Scored) THEN n ELSE Cardinality(Scored)
            IN  /\ Len(res.items) = k
                /\ res.total = k
                /\ \A i \in 1..k : res.items[i].player_id \in Scored
                /\ \A i, j \in 1..k : i # j => res.items[i].player_id # res.items[j].player_id

\* C16 witness: two players signed up, one of them has submitted a score and
\* is indexed; get_top(2) returns that one player, total 1.
C16_Witness ==
    /\ NoDrift
    /\ Cardinality(DOMAIN playerinfo) = 2
    /\ Cardinality(Scored) = 1
    /\ get_top_leaderboard(2).total = 1
    /\ Len(get_top_leaderboard(2).items) = 1
    /\ get_top_leaderboard(2).items[1].player_id \in Scored

\* C17: in every quiescent state the Rank Index holds an entry for exactly the
\* players that have a BestScoreRecord, and a player has a BestScoreRecord
\* only once it has submitted a score.
C17_IndexMatchesRecords ==
    Quiescent =>
        /\ DOMAIN zset = DOMAIN leaderboard
        /\ \A p \in DOMAIN leaderboard : RowsOf(p) # {}

\* What the stores hold about player q is the same before and after the step.
PlayerUntouched(q) ==
    /\ (q \in DOMAIN leaderboard) = (q \in DOMAIN leaderboard')
    /\ q \in DOMAIN leaderboard => leaderboard'[q] = leaderboard[q]
    /\ (q \in DOMAIN zset) = (q \in DOMAIN zset')
    /\ q \in DOMAIN zset => zset'[q] = zset[q]
    /\ Len(score_history') >= Len(score_history)
    /\ \A i \in 1..Len(score_history') :
          score_history'[i].player_id = q =>
              (i <= Len(score_history) /\ score_history[i] = score_history'[i])
    /\ \A i \in 1..Len(score_history) :
          score_history[i].player_id = q => score_history'[i] = score_history[i]

\* C18: every step of a submit_score request for player P leaves the
\* BestScoreRecord, the ScoreEvents and the Rank Index entry of every other
\* player as they were, and a request that is about to lock P's row can take
\* the lock whenever no request for P holds it, whatever locks the requests
\* for other players hold.
C18_PerPlayerIsolation ==
    [][\A r \in Requests :
          /\ req'[r] # req[r] =>
                \A q \in Ids \ {req[r].player_id, req'[r].player_id} : PlayerUntouched(q)
          /\ (/\ req[r].pc = "started"
              /\ \A o \in Requests :
                    ~ (req[o].pc = "locked" /\ req[o].player_id = req[r].player_id))
                 => ENABLED LockRow(r)]_vars

\* C18 witness: two requests for different players hold their row locks at the
\* same time, each about to raise its own player's best_score.
C18_Witness ==
    \E r, o \in Requests :
        /\ req[r].pc = "locked"
        /\ req[o].pc = "locked"
        /\ req[r].player_id # req[o].player_id
        /\ req[r].score > leaderboard[req[r].player_id].best_score
        /\ req[o].score > leaderboard[req[o].player_id].best_score

C20_NoPartialLedgerWrite ==
    \A i \in 1..Len(score_history) :
        /\ score_history[i].player_id \in DOMAIN leaderboard
        /\ leaderboard[score_history[i].player_id].best_score >= score_history[i].score

\* C20 witness: a transaction failed at the commit (a request was answered 500
\* and there is no history row for it), and a later submission of a positive
\* score has committed.
C20_Witness ==
    /\ \E r \in Requests : req[r].pc = "done" /\ req[r].status = 500
    /\ \E r \in Requests : req[r].pc = "committed" /\ req[r].score > 0
    /\ Len(score_history) = 1

\* C21: a signup whose contact handle belongs to a player is answered 400 and
\* a signup that fails, at the lookup or at the INSERT, creates no PlayerInfo
\* row and no leaderboard row; after every step no two players share a
\* contact handle, whatever the interleaving of the signups.
C21_UniqueHandle ==
    [][/\ \A p, q \in DOMAIN playerinfo' :
             p # q => playerinfo'[p] # playerinfo'[q]
       /\ \A r \in Requests :
             /\ \A h \in Handles :
                   ((\E p \in DOMAIN playerinfo : playerinfo[p] = h) /\ SignupCheck(r, h)) =>
                       /\ req'[r].pc = "done" /\ req'[r].status = 400
                       /\ UNCHANGED <<playerinfo, leaderboard>>
             /\ (req'[r].pc = "done" /\ req[r].pc # "done" /\ req'[r].status # 200) =>
                   UNCHANGED <<playerinfo, leaderboard>>]_vars

\* C21 witness: two signups with the same handle ran concurrently (both passed
\* the lookup); one created the player, the other failed at the INSERT, and
\* there is one player.
C21_Witness ==
    /\ \E r, o \in Requests :
          /\ req[r].pc = "done" /\ req[r].status = 200
          /\ req[o].pc = "done" /\ req[o].status = 500
    /\ Cardinality(DOMAIN playerinfo) = 1
    /\ DOMAIN leaderboard = DOMAIN playerinfo

\* C22: the rank field of every item get_top returns is the value get_rank
\* returns for that player on the same index, also when index entries without
\* a ledger row are skipped.
C22_TopRankIsGetRank ==
    \A n \in 1..MaxN :
        LET items == get_top_leaderboard(n).items
        IN  \A i \in 1..Len(items) :
                items[i].rank = get_rank_from_redis(items[i].player_id)

\* C22 witness: the index holds two entries, the upper one without a ledger
\* row; get_top(2) skips it and returns the other player with rank 2, which
\* is its get_rank.
C22_Witness ==
    /\ Cardinality(DOMAIN zset) = 2
    /\ Len(get_top_leaderboard(2).items) = 1
    /\ get_top_leaderboard(2).items[1].rank = 2
    /\ get_rank_from_redis(get_top_leaderboard(2).items[1].player_id) = 2

\* C23: under fair scheduling every submission for an existing player takes
\* the row lock, commits, reads the record back and issues its index upsert
\* (its handler ends), and in every state with a running request some running
\* request can take its next step: no deadlock.
C23_EverySubmissionCompletes ==
    /\ \A r \in Requests :
          /\ (req[r].pc = "started") ~> (req[r].pc \in {"locked", "inserting"})
          /\ (req[r].pc \in {"locked", "inserting"}) ~> (req[r].pc = "committed")
          /\ (req[r].pc = "committed") ~> (req[r].pc = "refreshed")
          /\ (req[r].pc = "refreshed") ~> (req[r].pc = "done" /\ req[r].status \in {200, 500})
    /\ []((\E r \in Requests : ~ Free(r)) => (\E r \in Requests : ENABLED HandlerStep(r)))

\* C23 witness: a request waits for the row lock that another request for the
\* same player holds.
C23_Witness ==
    \E r, o \in Requests :
        /\ req[r].pc = "started"
        /\ req[o].pc = "locked"
        /\ req[r].player_id = req[o].player_id

====
